---------------------------- MODULE Spec2Model ----------------------------
(***************************************************************************)
(* A model of preprocessAPI/functions.py: the language-model retry loop    *)
(* (CausalClassify.get_completion / generate_preprocess_sentence), the     *)
(* topic selector (TopicSelect.select_topic), the causal/general partition *)
(* (CausalClassify.inference_sentence), the split-and-relate stage         *)
(* (SplitSentence.result_split, UpdataNeo4j.make_relation) and the graph   *)
(* writer (UpdataNeo4j.update_neo4j).                                      *)
(*                                                                         *)
(* A text is a sequence of tokens.  Python's 0-based indices are shifted   *)
(* by one wherever a TLA+ sequence is indexed.                             *)
(***************************************************************************)
EXTENDS Integers, Sequences, FiniteSets

VARIABLES
    \* ---- CausalClassify.generate_preprocess_sentence / get_completion
    pc,                  \* "idle" | "request" | "returned"
    sentence,            \* argument of generate_preprocess_sentence
    user_prompt_content, \* the prompt built around the sentence
    i,                   \* loop variable of `for i in range(0, retry_count)`
    outcomes,            \* outcome of every request issued so far, in order
    slept,               \* seconds spent in time.sleep
    model_output,        \* value returned to the caller
    \* ---- TopicSelect.select_topic
    tpc,                 \* "idle" | "called" | "returned" | "raised"
    topic_vector,        \* lda.get_document_topics(bow)
    keywords,            \* the local variable `keywords`
    label,               \* value returned by select_topic
    error,               \* exception that ended select_topic
    \* ---- CausalClassify.inference_sentence
    ipc,                 \* "idle" | "loop" | "returned"
    sentences,           \* kss.split_sentences(script)
    outputs,             \* label clf gave to each sentence handled so far
    causal_sentences,
    general_sentencse,
    \* ---- SplitSentence.result_split / UpdataNeo4j.make_relation
    rpc,                 \* "idle" | "called" | "split" | "related"
    splited,             \* cs.splited
    embeds,              \* cs.embeds
    calls,               \* generate_preprocess_sentence calls made, in order
    result_list,
    emb_list,
    node_result,
    rel_result,
    \* ---- UpdataNeo4j.update_neo4j
    npc,                 \* "idle" | "connect" | "nodes" | "rels" | "links" | "returned" | "raised"
    nodes,
    relations,
    rel_type,
    store,               \* content of the graph store
    store0,              \* content of the graph store when update_neo4j was entered
    ran,                 \* queries of this invocation that completed
    link_idx,            \* position of `for node in nodes` (0-based)
    neo_result,          \* value returned by update_neo4j
    raised_by            \* the call whose exception left update_neo4j

completion_vars == <<pc, sentence, user_prompt_content, i, outcomes, slept, model_output>>
topic_vars      == <<tpc, topic_vector, keywords, label, error>>
inference_vars  == <<ipc, sentences, outputs, causal_sentences, general_sentencse>>
relation_vars   == <<rpc, splited, embeds, calls, result_list, emb_list, node_result, rel_result>>
neo4j_vars      ==
    <<npc, nodes, relations, rel_type, store, store0, ran, link_idx, neo_result, raised_by>>
vars == <<completion_vars, topic_vars, inference_vars, relation_vars, neo4j_vars>>

\* The components share no state: a step of one leaves the others alone.
completion_rest == <<topic_vars, inference_vars, relation_vars, neo4j_vars>>
topic_rest      == <<completion_vars, inference_vars, relation_vars, neo4j_vars>>
inference_rest  == <<completion_vars, topic_vars, relation_vars, neo4j_vars>>
relation_rest   == <<completion_vars, topic_vars, inference_vars, neo4j_vars>>
neo4j_rest      == <<completion_vars, topic_vars, inference_vars, relation_vars>>

(***************************************************************************)
(* Bounds of the model.                                                    *)
(***************************************************************************)
MaxAttempts == 5     \* requests the service is asked to answer in one call
MaxChoices == 2      \* completions in one response
MaxGroups == 2       \* groups the grouper returns
MaxGroupSize == 3    \* sentences in one group
NumOther == 2        \* topic ids outside the exclusion set that may occur
MaxProb == 2         \* distinct probability levels of a topic
MaxSentences == 4    \* sentences of a script
MaxNodes == 2        \* nodes handed to update_neo4j
MaxRels == 1         \* relations handed to update_neo4j

None == "None"

RECURSIVE SeqsUpTo(_, _)
SeqsUpTo(S, n) ==
    IF n = 0 THEN {<<>>}
    ELSE LET shorter == SeqsUpTo(S, n - 1)
         IN  shorter \cup {Append(s, x) : s \in {t \in shorter : Len(t) = n - 1}, x \in S}

RECURSIVE Flatten(_)
Flatten(ss) == IF ss = <<>> THEN <<>> ELSE Head(ss) \o Flatten(Tail(ss))

(***************************************************************************)
(* CausalClassify.generate_preprocess_sentence and get_completion          *)
(***************************************************************************)
Sentences == {<<"s1">>, <<"s2">>}
Answers == {<<"a1">>, <<"a2">>}

\* A returned Python value: a str, or a 3-tuple whose first item is a str.
Str(text) == [shape |-> "str", text |-> text, rest |-> <<>>]
Tuple3(text, b, c) == [shape |-> "tuple3", text |-> text, rest |-> <<b, c>>]
NoValue == [shape |-> "none", text |-> <<>>, rest |-> <<>>]

retry_count == 3

\* The f-string of generate_preprocess_sentence: the sentence between the
\* instructions and the "output:" line.
prompt_text_with_constraints(s) == <<"<instructions>", "input:">> \o s \o <<"output:">>

\* What client.chat.completions.create can do: raise, or return a response
\* holding a list of completions.
Raised == [kind |-> "raise", choices |-> <<>>]
Response(choices) == [kind |-> "response", choices |-> choices]
Responses == {Response(c) : c \in SeqsUpTo(Answers, MaxChoices)}

AnswerLast(response) == response.choices[Len(response.choices)]

\* answer = response.choices[0].message.content
Answer(response) == response.choices[1]

\* The try body fails when create raises or when choices[0] does not exist.
Fails(o) == o.kind = "raise" \/ o.choices = <<>>

generate_preprocess_sentence(s) ==
    /\ pc = "idle"
    /\ pc' = "request"
    /\ sentence' = s
    /\ user_prompt_content' = prompt_text_with_constraints(s)
    /\ i' = 0
    /\ outcomes' = <<>>
    /\ slept' = 0
    /\ model_output' = NoValue

\* The except clause.  `continue` resumes the enclosing `while True`, so the
\* for loop never advances i.
ExceptHandler ==
    IF i + 1 = retry_count
    THEN /\ pc' = "returned"
         /\ model_output' = Tuple3(user_prompt_content, None, None)
         /\ UNCHANGED <<i, slept>>
    ELSE /\ pc' = "request"
         /\ slept' = slept + 4
         /\ UNCHANGED <<i, model_output>>

\* One pass of the while loop in which create returns a response.
RequestReturns(response) ==
    /\ pc = "request"
    /\ Len(outcomes) < MaxAttempts
    /\ outcomes' = Append(outcomes, response)
    /\ IF response.choices # <<>>
       THEN /\ pc' = "returned"
            /\ model_output' = Str(Answer(response))
            /\ UNCHANGED <<i, slept>>
       ELSE ExceptHandler
    /\ UNCHANGED <<sentence, user_prompt_content>>

\* One pass of the while loop in which create raises.
RequestRaises ==
    /\ pc = "request"
    /\ Len(outcomes) < MaxAttempts
    /\ outcomes' = Append(outcomes, Raised)
    /\ ExceptHandler
    /\ UNCHANGED <<sentence, user_prompt_content>>

CompletionInit ==
    /\ pc = "idle"
    /\ sentence = <<>>
    /\ user_prompt_content = <<>>
    /\ i = 0
    /\ outcomes = <<>>
    /\ slept = 0
    /\ model_output = NoValue

CallCompletion ==
    /\ pc = "idle"
    /\ \E s \in Sentences : generate_preprocess_sentence(s)
    /\ UNCHANGED completion_rest

CreateReturns ==
    /\ pc = "request"
    /\ \E r \in Responses : RequestReturns(r)
    /\ UNCHANGED completion_rest

CreateRaises ==
    /\ RequestRaises
    /\ UNCHANGED completion_rest

\* Every value a returning generate_preprocess_sentence hands back: the
\* return at line 260 (line 267 is never reached, i staying 0).
CompletionReturns == {Str(a) : a \in Answers}

(***************************************************************************)
(* TopicSelect.select_topic                                                *)
(***************************************************************************)
except_topic_id == {11, 12, 18, 23, 28}

NumTopics == 30      \* print_topics(num_topics=30)
NumWords == 5        \* print_topics(num_words=5)
TopN == 6            \* sorted_topics[:6]
KeepKeywords == 5    \* keywords[:5]

\* Topic ids a document's distribution may hold.
TopicIds == except_topic_id \cup (0 .. NumOther - 1)

\* The value of a local variable: bound to a list, or not bound yet.
Unassigned == [assigned |-> FALSE, value |-> <<>>]
Assigned(v) == [assigned |-> TRUE, value |-> v]

\* lda.print_topics renders topic t as  w*"word" + w*"word" + ...  ; a token
\* is <<kind, topic, rank>>.
Quote == <<"quote", 0, 0>>
Plus == <<"plus", 0, 0>>
Term(t, k) == <<<<"weight", t, k>>, <<"times", 0, 0>>, Quote, <<"word", t, k>>, Quote>>

RECURSIVE TopicString(_, _)
TopicString(t, k) ==
    IF k = 0 THEN <<>>
    ELSE IF k = 1 THEN Term(t, 1)
    ELSE TopicString(t, k - 1) \o <<Plus>> \o Term(t, k)

\* topicList = lda.print_topics(num_words=5, num_topics=30): entry t is the
\* pair (t, rendering of topic t).
topicList == [t \in 0 .. NumTopics - 1 |-> <<t, TopicString(t, NumWords)>>]

\* Index of the first quote token of s at or after position p, 0 if none.
RECURSIVE NextQuote(_, _)
NextQuote(s, p) ==
    IF p > Len(s) THEN 0
    ELSE IF s[p] = Quote THEN p
    ELSE NextQuote(s, p + 1)

\* re.findall(r'"([^"]*)"', s): the texts between successive pairs of quotes.
RECURSIVE FindAllQuoted(_, _)
FindAllQuoted(s, p) ==
    LET open == NextQuote(s, p)
        close == IF open = 0 THEN 0 ELSE NextQuote(s, open + 1)
    IN  IF open = 0 \/ close = 0 THEN <<>>
        ELSE <<SubSeq(s, open + 1, close - 1)>> \o FindAllQuoted(s, close + 1)

\* lst[:n]
Take(lst, n) == SubSeq(lst, 1, IF Len(lst) < n THEN Len(lst) ELSE n)

\* lda.get_document_topics(bow) for a document whose topic t has probability
\* level f[t]: the (topic, probability) pairs of the topics with a non-zero
\* probability, by ascending topic id.
RECURSIVE DocumentTopics(_, _)
DocumentTopics(f, t) ==
    IF t >= NumTopics THEN <<>>
    ELSE (IF t \in DOMAIN f /\ f[t] > 0 THEN <<<<t, f[t]>>>> ELSE <<>>)
         \o DocumentTopics(f, t + 1)

\* The probability level of every topic id: 0 for a topic the document lacks.
TopicLevels == [TopicIds -> 0 .. MaxProb]

RECURSIVE InsertAscending(_, _)
InsertAscending(s, x) ==
    IF s = <<>> THEN <<x>>
    ELSE IF Head(s)[2] <= x[2] THEN <<Head(s)>> \o InsertAscending(Tail(s), x)
    ELSE <<x>> \o s

\* Where a stable sort by descending probability puts x: behind every
\* element whose probability is not lower.
RECURSIVE InsertByProb(_, _)
InsertByProb(s, x) ==
    IF s = <<>> THEN <<x>>
    ELSE IF Head(s)[2] >= x[2] THEN <<Head(s)>> \o InsertByProb(Tail(s), x)
    ELSE <<x>> \o s

\* sorted(topic_vector, key=lambda x: x[1], reverse=True)
RECURSIVE sorted_topics(_)
sorted_topics(tv) ==
    IF tv = <<>> THEN <<>>
    ELSE InsertByProb(sorted_topics(SubSeq(tv, 1, Len(tv) - 1)), tv[Len(tv)])

top_topics(tv) == Take(sorted_topics(tv), TopN)

ExcludedBut28(topic_id) == topic_id \in except_topic_id \ {28}

\* if topic_id in except_topic_id: continue
Excluded(topic_id) == topic_id \in except_topic_id

\* The for loop over top_topics; kw is `keywords` on entry.
RECURSIVE WalkTopics(_, _)
WalkTopics(tops, kw) ==
    IF tops = <<>> THEN kw
    ELSE IF Excluded(Head(tops)[1]) THEN WalkTopics(Tail(tops), kw)
    ELSE Assigned(FindAllQuoted(topicList[Head(tops)[1]][2], 1))

StaleKeywords(prev) == prev

\* `keywords` is a local of select_topic: a call starts with it unbound,
\* whatever an earlier call left behind.
FreshKeywords(prev) == Unassigned

CallSelectTopic(tv) ==
    /\ tpc = "idle"
    /\ tpc' = "called"
    /\ topic_vector' = tv
    /\ keywords' = FreshKeywords(keywords)
    /\ label' = Unassigned
    /\ error' = None

\* Lines 190-200: sort, cut, walk, and return keywords[:5]; reading the
\* unbound `keywords` raises UnboundLocalError.
select_topic ==
    /\ tpc = "called"
    /\ LET kw == WalkTopics(top_topics(topic_vector), keywords)
       IN  /\ keywords' = kw
           /\ IF kw.assigned
              THEN /\ tpc' = "returned"
                   /\ label' = Assigned(Take(kw.value, KeepKeywords))
                   /\ error' = None
              ELSE /\ tpc' = "raised"
                   /\ label' = Unassigned
                   /\ error' = "UnboundLocalError"
    /\ UNCHANGED topic_vector

\* The call is over; its frame is dead.
ExitSelectTopic ==
    /\ tpc \in {"returned", "raised"}
    /\ tpc' = "idle"
    /\ topic_vector' = <<>>
    /\ UNCHANGED <<keywords, label, error>>

TopicInit ==
    /\ tpc = "idle"
    /\ topic_vector = <<>>
    /\ keywords = Unassigned
    /\ label = Unassigned
    /\ error = None

CallTopic ==
    /\ tpc = "idle"
    /\ \E f \in TopicLevels : CallSelectTopic(DocumentTopics(f, 0))
    /\ UNCHANGED topic_rest

SelectTopic ==
    /\ select_topic
    /\ UNCHANGED topic_rest

ExitTopic ==
    /\ ExitSelectTopic
    /\ UNCHANGED topic_rest

(***************************************************************************)
(* CausalClassify.inference_sentence                                       *)
(***************************************************************************)
Labels == {"LABEL_0", "LABEL_1"}

IsCausalSwapped(output) == output = "LABEL_0"

\* if output["label"] == "LABEL_1"
IsCausal(output) == output = "LABEL_1"

CallInference(ss) ==
    /\ ipc = "idle"
    /\ ipc' = "loop"
    /\ sentences' = ss
    /\ outputs' = <<>>
    /\ causal_sentences' = <<>>
    /\ general_sentencse' = <<>>

\* One pass of `for sen in sentences`, the classifier answering lab.
Classify(lab) ==
    /\ ipc = "loop"
    /\ Len(outputs) < Len(sentences)
    /\ LET sen == sentences[Len(outputs) + 1]
       IN  IF IsCausal(lab)
           THEN /\ causal_sentences' = Append(causal_sentences, sen)
                /\ UNCHANGED general_sentencse
           ELSE /\ general_sentencse' = Append(general_sentencse, sen)
                /\ UNCHANGED causal_sentences
    /\ outputs' = Append(outputs, lab)
    /\ UNCHANGED <<ipc, sentences>>

ReturnInference ==
    /\ ipc = "loop"
    /\ Len(outputs) = Len(sentences)
    /\ ipc' = "returned"
    /\ UNCHANGED <<sentences, outputs, causal_sentences, general_sentencse>>

InferenceInit ==
    /\ ipc = "idle"
    /\ sentences = <<>>
    /\ outputs = <<>>
    /\ causal_sentences = <<>>
    /\ general_sentencse = <<>>

CallInferenceSentence ==
    /\ ipc = "idle"
    /\ \E ss \in SeqsUpTo(Sentences, MaxSentences) : CallInference(ss)
    /\ UNCHANGED inference_rest

ClassifyNext ==
    /\ ipc = "loop"
    /\ \E lab \in Labels : Classify(lab)
    /\ UNCHANGED inference_rest

InferenceReturns ==
    /\ ReturnInference
    /\ UNCHANGED inference_rest

(***************************************************************************)
(* SplitSentence.result_split and UpdataNeo4j.make_relation                *)
(***************************************************************************)
\* The grouper's output for groups of the given sizes: sentence k of group g
\* and its embedding, a numpy array.
GroupSizes == SeqsUpTo(1 .. MaxGroupSize, MaxGroups)
Splited(sizes) == [g \in 1 .. Len(sizes) |-> [k \in 1 .. sizes[g] |-> <<"sentence", g, k>>]]
Embeds(sizes) ==
    [g \in 1 .. Len(sizes) |-> [k \in 1 .. sizes[g] |-> [type |-> "ndarray", data |-> <<g, k>>]]]

\* e.tolist()
tolist(e) == [type |-> "list", data |-> e.data]

\* Sentences in the groups before group g.
RECURSIVE Before(_, _)
Before(groups, g) == IF g <= 1 THEN 0 ELSE Before(groups, g - 1) + Len(groups[g - 1])

\* [CausalClassify.generate_preprocess_sentence(s) for s in res], the calls
\* of this group returning outs[base + 1], outs[base + 2], ...
Reconstruct(res, outs, base) == [k \in 1 .. Len(res) |-> outs[base + k]]

CallResultSplit(sizes) ==
    /\ rpc = "idle"
    /\ rpc' = "called"
    /\ splited' = Splited(sizes)
    /\ embeds' = Embeds(sizes)
    /\ UNCHANGED <<calls, result_list, emb_list, node_result, rel_result>>

\* A run of result_split in which every generate_preprocess_sentence call
\* returns, the n-th call returning outs[n].
result_split(outs) ==
    /\ rpc = "called"
    /\ rpc' = "split"
    /\ result_list' = [g \in 1 .. Len(splited) |->
                          Reconstruct(splited[g], outs, Before(splited, g))]
    /\ calls' = [n \in 1 .. Len(Flatten(splited)) |->
                    [input |-> Flatten(splited)[n], output |-> outs[n]]]
    /\ emb_list' = [g \in 1 .. Len(embeds) |->
                       [k \in 1 .. Len(embeds[g]) |-> tolist(embeds[g][k])]]
    /\ UNCHANGED <<splited, embeds, node_result, rel_result>>

NodeFirstEmbedding(group, emb, k) == <<group[k], emb[1]>>

\* [split_result[t_idx][k], emb_list[t_idx][k]]
Node(group, emb, k) == <<group[k], emb[k]>>

\* `for e_idx in range(len(group)-1)` from e_idx on; acc holds node_result
\* and rel_result.
RECURSIVE InnerLoop(_, _, _, _)
InnerLoop(e_idx, group, emb, acc) ==
    IF e_idx >= Len(group) - 1 THEN acc
    ELSE LET n1 == Append(acc.node_result, Node(group, emb, e_idx + 1))
             r1 == Append(acc.rel_result, <<group[e_idx + 1], group[e_idx + 2]>>)
             n2 == IF e_idx = Len(group) - 2
                   THEN Append(n1, Node(group, emb, e_idx + 2))
                   ELSE n1
         IN  InnerLoop(e_idx + 1, group, emb, [node_result |-> n2, rel_result |-> r1])

GroupStepLoopOnly(group, emb, acc) == InnerLoop(0, group, emb, acc)

\* The body of `for t_idx in range(len(split_result))`.
GroupStep(group, emb, acc) ==
    IF Len(group) = 1
    THEN [node_result |-> Append(acc.node_result, Node(group, emb, 1)),
          rel_result |-> acc.rel_result]
    ELSE InnerLoop(0, group, emb, acc)

RECURSIVE OuterLoop(_, _, _, _)
OuterLoop(t_idx, split_result, embs, acc) ==
    IF t_idx >= Len(split_result) THEN acc
    ELSE OuterLoop(t_idx + 1, split_result, embs,
                   GroupStep(split_result[t_idx + 1], embs[t_idx + 1], acc))

make_relation(split_result, embs) ==
    OuterLoop(0, split_result, embs, [node_result |-> <<>>, rel_result |-> <<>>])

CallMakeRelation ==
    /\ rpc = "split"
    /\ rpc' = "related"
    /\ node_result' = make_relation(result_list, emb_list).node_result
    /\ rel_result' = make_relation(result_list, emb_list).rel_result
    /\ UNCHANGED <<splited, embeds, calls, result_list, emb_list>>

RelationInit ==
    /\ rpc = "idle"
    /\ splited = <<>>
    /\ embeds = <<>>
    /\ calls = <<>>
    /\ result_list = <<>>
    /\ emb_list = <<>>
    /\ node_result = <<>>
    /\ rel_result = <<>>

CallSplit ==
    /\ rpc = "idle"
    /\ \E sizes \in GroupSizes : CallResultSplit(sizes)
    /\ UNCHANGED relation_rest

ResultSplit ==
    /\ rpc = "called"
    /\ \E outs \in [1 .. Len(Flatten(splited)) -> CompletionReturns] : result_split(outs)
    /\ UNCHANGED relation_rest

MakeRelation ==
    /\ CallMakeRelation
    /\ UNCHANGED relation_rest

(***************************************************************************)
(* UpdataNeo4j.update_neo4j                                                *)
(***************************************************************************)
Names == {"n1", "n2"}
Embedding == [type |-> "list", data |-> <<1, 1>>]
event_topics == "topics"
current_timestamp == "now"

\* nodes: [name, embedding] items; relations: [name, name] items.
NodeInputs == SeqsUpTo({<<n, Embedding>> : n \in Names}, MaxNodes)
RelationInputs == SeqsUpTo(Names \X Names, MaxRels)
RelTypes == {"causal", "general"}

\* The store before the call: the Event entity of the topic may or may not
\* exist, and an earlier run may have left a Youtube node.
EarlierNode ==
    [name |-> "n1", embedding |-> Embedding, createdTimestamp |-> "earlier",
     oriTopic |-> event_topics]
EmptyStore == [youtube |-> <<>>, rels |-> <<>>, links |-> <<>>, events |-> {}]
Stores ==
    {[youtube |-> y, rels |-> <<>>, links |-> <<>>, events |-> ev] :
        y \in {<<>>, <<EarlierNode>>}, ev \in {{}, {event_topics}}}

\* Lines 404-412.
node_list(ns) ==
    [k \in 1 .. Len(ns) |->
        [name |-> ns[k][1], embedding |-> ns[k][2],
         createdTimestamp |-> current_timestamp, oriTopic |-> event_topics]]

\* Lines 430-433.
rel_type_cypher(t) == IF t = "causal" THEN "isCauseOf" ELSE "isGeneralOf"

\* Youtube nodes of st named n.
Matches(st, n) == Cardinality({k \in 1 .. Len(st.youtube) : st.youtube[k].name = n})

RECURSIVE Repeat(_, _)
Repeat(x, n) == IF n <= 0 THEN <<>> ELSE <<x>> \o Repeat(x, n - 1)

\* gen_youtube_node_q: one Youtube node for each row.
AfterNodes(st, ns) == [st EXCEPT !.youtube = @ \o node_list(ns)]

\* gen_youtube_rel_q: for each pair, one relation for every (a, b) of
\* Youtube nodes matching the two names.
RECURSIVE AfterRels(_, _, _)
AfterRels(st, rels, t) ==
    IF rels = <<>> THEN st
    ELSE LET pair == Head(rels)
             made == Repeat(<<pair[1], pair[2], rel_type_cypher(t)>>,
                            Matches(st, pair[1]) * Matches(st, pair[2]))
         IN  AfterRels([st EXCEPT !.rels = @ \o made], Tail(rels), t)

\* topic_connect_q for one node: a connectedYoutube relation from every Event
\* with these topics to every Youtube node of that name.
AfterLink(st, node) ==
    LET n == Matches(st, node[1]) * Cardinality(st.events \cap {event_topics})
    IN  [st EXCEPT !.links = @ \o Repeat(<<event_topics, node[1]>>, n)]

RolledBack(current, entered) == entered

\* session.run runs each query in a transaction of its own: a failing query
\* writes nothing and leaves what the earlier queries committed.
AfterFailure(current, entered) == current

CallUpdate(ns, rs, t, st) ==
    /\ npc = "idle"
    /\ npc' = "connect"
    /\ nodes' = ns
    /\ relations' = rs
    /\ rel_type' = t
    /\ store' = st
    /\ store0' = st
    /\ ran' = 0
    /\ link_idx' = 0
    /\ neo_result' = None
    /\ raised_by' = None

\* The exception of a failing query leaves update_neo4j through both with
\* blocks.
Propagate(call) ==
    /\ npc' = "raised"
    /\ raised_by' = call
    /\ store' = AfterFailure(store, store0)
    /\ UNCHANGED <<nodes, relations, rel_type, store0, ran, link_idx, neo_result>>

\* driver.verify_connectivity()
Connect ==
    /\ npc = "connect"
    /\ npc' = "nodes"
    /\ UNCHANGED <<nodes, relations, rel_type, store, store0, ran, link_idx, neo_result, raised_by>>
    /\ UNCHANGED neo4j_rest

ConnectFails ==
    /\ npc = "connect"
    /\ Propagate("verify_connectivity")
    /\ UNCHANGED neo4j_rest

\* session.run(gen_youtube_node_q, node_list=node_list)
CreateNodes ==
    /\ npc = "nodes"
    /\ npc' = "rels"
    /\ store' = AfterNodes(store, nodes)
    /\ ran' = ran + 1
    /\ UNCHANGED <<nodes, relations, rel_type, store0, link_idx, neo_result, raised_by>>
    /\ UNCHANGED neo4j_rest

CreateNodesFails ==
    /\ npc = "nodes"
    /\ Propagate("gen_youtube_node_q")
    /\ UNCHANGED neo4j_rest

\* session.run(gen_youtube_rel_q, relations=relations)
CreateRels ==
    /\ npc = "rels"
    /\ npc' = "links"
    /\ store' = AfterRels(store, relations, rel_type)
    /\ ran' = ran + 1
    /\ UNCHANGED <<nodes, relations, rel_type, store0, link_idx, neo_result, raised_by>>
    /\ UNCHANGED neo4j_rest

CreateRelsFails ==
    /\ npc = "rels"
    /\ Propagate("gen_youtube_rel_q")
    /\ UNCHANGED neo4j_rest

\* One pass of `for node in nodes`.
ConnectTopic ==
    /\ npc = "links"
    /\ link_idx < Len(nodes)
    /\ store' = AfterLink(store, nodes[link_idx + 1])
    /\ link_idx' = link_idx + 1
    /\ ran' = ran + 1
    /\ UNCHANGED <<npc, nodes, relations, rel_type, store0, neo_result, raised_by>>
    /\ UNCHANGED neo4j_rest

ConnectTopicFails ==
    /\ npc = "links"
    /\ link_idx < Len(nodes)
    /\ Propagate("topic_connect_q")
    /\ UNCHANGED neo4j_rest

\* return "ok"
ReturnOk ==
    /\ npc = "links"
    /\ link_idx = Len(nodes)
    /\ npc' = "returned"
    /\ neo_result' = "ok"
    /\ UNCHANGED <<nodes, relations, rel_type, store, store0, ran, link_idx, raised_by>>
    /\ UNCHANGED neo4j_rest

Neo4jInit ==
    /\ npc = "idle"
    /\ nodes = <<>>
    /\ relations = <<>>
    /\ rel_type = "causal"
    /\ store = EmptyStore
    /\ store0 = EmptyStore
    /\ ran = 0
    /\ link_idx = 0
    /\ neo_result = None
    /\ raised_by = None

CallUpdateNeo4j ==
    /\ npc = "idle"
    /\ \E ns \in NodeInputs, rs \in RelationInputs, t \in RelTypes, st \in Stores :
           CallUpdate(ns, rs, t, st)
    /\ UNCHANGED neo4j_rest

(***************************************************************************)
(* Specifications: one per component, the other components at rest.        *)
(***************************************************************************)
Init == CompletionInit /\ TopicInit /\ InferenceInit /\ RelationInit /\ Neo4jInit

CompletionNext == CallCompletion \/ CreateReturns \/ CreateRaises

TopicNext == CallTopic \/ SelectTopic \/ ExitTopic

InferenceNext == CallInferenceSentence \/ ClassifyNext \/ InferenceReturns

RelationNext == CallSplit \/ ResultSplit \/ MakeRelation

Neo4jNext ==
    \/ CallUpdateNeo4j
    \/ Connect
    \/ ConnectFails
    \/ CreateNodes
    \/ CreateNodesFails
    \/ CreateRels
    \/ CreateRelsFails
    \/ ConnectTopic
    \/ ConnectTopicFails
    \/ ReturnOk

SpecCompletion == Init /\ [][CompletionNext]_vars
SpecTopic == Init /\ [][TopicNext]_vars
SpecInference == Init /\ [][InferenceNext]_vars
SpecRelation == Init /\ [][RelationNext]_vars
SpecNeo4j == Init /\ [][Neo4jNext]_vars

(***************************************************************************)
(* Properties of get_completion and generate_preprocess_sentence           *)
(***************************************************************************)
AllFailed == \A k \in 1 .. Len(outcomes) : Fails(outcomes[k])

\* Attempt k is the first whose request succeeded.
FirstSuccessAt(k) ==
    /\ k <= Len(outcomes)
    /\ ~Fails(outcomes[k])
    /\ \A j \in 1 .. k - 1 : Fails(outcomes[j])

\* C1: when every request fails, get_completion issues at most 3 requests:
\* no run of failures holds a 4th request.
C1_AtMostThreeAttempts == AllFailed => Len(outcomes) <= 3

\* C2: once 3 requests have failed and none has succeeded,
\* generate_preprocess_sentence has returned, and what it returned is the
\* sentence it was given, as a plain text.
C2_FallbackIsSentence ==
    (AllFailed /\ Len(outcomes) >= 3) =>
        (pc = "returned" /\ model_output = Str(sentence))

\* C3: if attempt k in 1..3 is the first to succeed, get_completion has
\* returned the text of the first completion of attempt k's response, and
\* attempt k is the last request issued.
C3_FirstSuccessReturned ==
    \A k \in 1 .. 3 :
        FirstSuccessAt(k) =>
            /\ pc = "returned"
            /\ model_output.shape = "str"
            /\ model_output.text = Head(outcomes[k].choices)
            /\ Len(outcomes) = k

C3_Witness ==
    /\ FirstSuccessAt(3)
    /\ Len(outcomes[3].choices) = 2
    /\ outcomes[3].choices[1] # outcomes[3].choices[2]
    /\ pc = "returned"

(***************************************************************************)
(* Properties of result_split and make_relation                            *)
(***************************************************************************)
NodeTexts == [n \in 1 .. Len(node_result) |-> node_result[n][1]]

\* The directed pairs of neighbours of one group, in order.
Chain(group) == [k \in 1 .. Len(group) - 1 |-> <<group[k], group[k + 1]>>]

\* C4: the nodes are the sentences of the groups, group after group and in
\* each group's order (n nodes for a group of n); the edges are, group after
\* group, the n-1 pairs (sentence k, sentence k+1) of the group, none for a
\* group of one.
C4_ChainPerGroup ==
    rpc = "related" =>
        /\ NodeTexts = Flatten(result_list)
        /\ rel_result = Flatten([g \in 1 .. Len(result_list) |-> Chain(result_list[g])])
        /\ Len(rel_result) = Len(node_result) - Len(result_list)

C4_Witness ==
    /\ rpc = "related"
    /\ Len(result_list) = 2
    /\ Len(result_list[1]) = 1
    /\ Len(result_list[2]) = 3
    /\ Len(node_result) = 4
    /\ Len(rel_result) = 2

\* C5: result_split returns texts and embeddings with the grouper's shape,
\* text (g, k) being what the call for sentence (g, k) returned and embedding
\* (g, k) the list of the grouper's embedding (g, k); and the node
\* make_relation emits for sentence k of group g carries emb_list[g][k].
C5_EmbeddingsAligned ==
    /\ rpc \in {"split", "related"} =>
          /\ Len(result_list) = Len(splited)
          /\ Len(emb_list) = Len(splited)
          /\ \A g \in 1 .. Len(splited) :
                /\ Len(result_list[g]) = Len(splited[g])
                /\ Len(emb_list[g]) = Len(splited[g])
                /\ \A k \in 1 .. Len(splited[g]) :
                      LET n == Before(splited, g) + k
                      IN  /\ emb_list[g][k].type = "list"
                          /\ emb_list[g][k].data = embeds[g][k].data
                          /\ calls[n].input = splited[g][k]
                          /\ calls[n].output = result_list[g][k]
    /\ rpc = "related" =>
          \A g \in 1 .. Len(result_list) :
              \A k \in 1 .. Len(result_list[g]) :
                  node_result[Before(result_list, g) + k] =
                      <<result_list[g][k], emb_list[g][k]>>

C5_Witness ==
    /\ rpc = "related"
    /\ Len(result_list) = 2
    /\ Len(result_list[1]) = 2
    /\ Len(result_list[2]) = 3
    /\ node_result[5][2].data = <<2, 3>>
    /\ result_list[1][1] # result_list[1][2]

(***************************************************************************)
(* Properties of select_topic                                              *)
(***************************************************************************)
ExclusionSet == {11, 12, 18, 23, 28}

\* The keyword signature of topic t: its five top-weighted words.
Signature(t) == [k \in 1 .. 5 |-> <<<<"word", t, k>>>>]

\* Place of entry n of the distribution tv when the entries are put by
\* descending probability, entries of equal probability keeping their order.
Rank(tv, n) ==
    1 + Cardinality({m \in 1 .. Len(tv) :
                        \/ tv[m][2] > tv[n][2]
                        \/ tv[m][2] = tv[n][2] /\ m < n})

\* Entries of tv among the 6 of highest probability.
TopSix(tv) == {n \in 1 .. Len(tv) : Rank(tv, n) <= 6}

NoneEligible == \A n \in TopSix(topic_vector) : topic_vector[n][1] \in ExclusionSet

SelectTopicOver == tpc \in {"returned", "raised"}

\* C6: a keyword list select_topic returns is the signature of a topic
\* outside {11, 12, 18, 23, 28}, and of none inside.
C6_NeverExcluded ==
    tpc = "returned" =>
        /\ label.assigned
        /\ \E t \in (0 .. 29) \ ExclusionSet : label.value = Signature(t)
        /\ \A t \in ExclusionSet : label.value # Signature(t)

C6_Witness ==
    /\ tpc = "returned"
    /\ label.value = Signature(0)
    /\ \A t \in ExclusionSet :
          \E n \in 1 .. Len(topic_vector) :
              topic_vector[n][1] = t /\ topic_vector[n][2] = 2
    /\ \E n \in 1 .. Len(topic_vector) : topic_vector[n] = <<0, 1>>

\* C8: when every candidate among the 6 of highest probability is excluded
\* (or there is no candidate), select_topic ends in UnboundLocalError and
\* returns no keyword list.
C8_NoneEligibleRaises ==
    (SelectTopicOver /\ NoneEligible) =>
        /\ tpc = "raised"
        /\ error = "UnboundLocalError"
        /\ ~label.assigned
        /\ ~keywords.assigned

C8_Witness ==
    /\ tpc = "raised"
    /\ Len(topic_vector) = 5
    /\ error = "UnboundLocalError"

\* C9: when one of the 6 candidates of highest probability is not excluded,
\* select_topic returns at most 5 keywords, the signature of the non-excluded
\* candidate that comes first by descending probability; that candidate is
\* one of the 6.
C9_FirstEligible ==
    (SelectTopicOver /\ ~NoneEligible) =>
        /\ tpc = "returned"
        /\ Len(label.value) <= 5
        /\ \E n \in TopSix(topic_vector) :
              /\ topic_vector[n][1] \notin ExclusionSet
              /\ label.value = Signature(topic_vector[n][1])
              /\ \A m \in 1 .. Len(topic_vector) :
                    (m # n /\ topic_vector[m][1] \notin ExclusionSet) =>
                        /\ Rank(topic_vector, m) > Rank(topic_vector, n)
                        /\ topic_vector[m][2] <= topic_vector[n][2]

C9_Witness ==
    /\ tpc = "returned"
    /\ Len(topic_vector) = 7
    /\ label.value = Signature(0)
    /\ \E n \in 1 .. 7 : topic_vector[n] = <<0, 1>> /\ Rank(topic_vector, n) = 3
    /\ \E n \in 1 .. 7 : topic_vector[n] = <<1, 1>> /\ Rank(topic_vector, n) = 4

(***************************************************************************)
(* Properties of update_neo4j                                              *)
(***************************************************************************)
RECURSIVE AfterLinks(_, _, _)
AfterLinks(st, ns, n) ==
    IF n = 0 THEN st ELSE AfterLink(AfterLinks(st, ns, n - 1), ns[n])

\* The store once the first q queries of the invocation have run.
Committed(q) ==
    IF q = 0 THEN store0
    ELSE IF q = 1 THEN AfterNodes(store0, nodes)
    ELSE AfterLinks(AfterRels(AfterNodes(store0, nodes), relations, rel_type), nodes, q - 2)

\* C7: when a query of update_neo4j fails, "ok" is not returned, the store
\* holds what the queries run before it wrote, and no further query runs.
C7_NotAtomic ==
    /\ [](npc = "raised" =>
            /\ neo_result # "ok"
            /\ ran < 2 + Len(nodes)
            /\ store = Committed(ran))
    /\ [][npc = "raised" => (npc' = "raised" /\ store' = store /\ ran' = ran)]_vars

C7_Witness ==
    /\ npc = "raised"
    /\ raised_by = "topic_connect_q"
    /\ ran = 3
    /\ Len(store.youtube) > Len(store0.youtube)
    /\ store.rels # <<>>
    /\ store.links # <<>>

(***************************************************************************)
(* Properties of inference_sentence                                        *)
(***************************************************************************)
\* The sentences at the positions in keep, in order.
RECURSIVE Kept(_, _)
Kept(ss, keep) ==
    IF ss = <<>> THEN <<>>
    ELSE Kept(SubSeq(ss, 1, Len(ss) - 1), keep)
         \o (IF Len(ss) \in keep THEN <<ss[Len(ss)]>> ELSE <<>>)

\* C10: the causal set is the sentences labelled LABEL_1 and the general set
\* the others, each occurrence in exactly one set and each set in input
\* order.
C10_Partition ==
    ipc = "returned" =>
        LET positive == {n \in 1 .. Len(sentences) : outputs[n] = "LABEL_1"}
        IN  /\ Len(outputs) = Len(sentences)
            /\ causal_sentences = Kept(sentences, positive)
            /\ general_sentencse = Kept(sentences, (1 .. Len(sentences)) \ positive)
            /\ Len(causal_sentences) + Len(general_sentencse) = Len(sentences)

C10_Witness ==
    /\ ipc = "returned"
    /\ sentences = <<<<"s1">>, <<"s2">>, <<"s1">>, <<"s2">>>>
    /\ outputs = <<"LABEL_1", "LABEL_0", "LABEL_0", "LABEL_1">>
    /\ causal_sentences = <<<<"s1">>, <<"s2">>>>
    /\ general_sentencse = <<<<"s2">>, <<"s1">>>>

=============================================================================
